---- MODULE Spec2Model ----
(***************************************************************************)
(* State-machine model of app.py (Guardian AI): the three SQLite tables,   *)
(* the per-tab Streamlit session state, and the handlers of the script:    *)
(* register, login, logout, the chat turn and the delete button.           *)
(*                                                                         *)
(* Each browser tab is a session whose script runs are threads of the one  *)
(* Streamlit server; every SQL statement is atomic, a script run is not.   *)
(* datetime.now() is a wall clock shared by all sessions: two sessions may *)
(* read the same value, while a read or a click of one session comes after *)
(* that session's previous read by a user interaction or a network round   *)
(* trip, at a later reading.                                               *)
(* The timestamp is stored as ISO text, which keeps equality and order, so *)
(* it is modelled by the clock reading itself.                             *)
(***************************************************************************)
EXTENDS Integers, FiniteSets, Sequences, TLC

MaxClock == 3
MaxRows == 3
MaxLimit == 2

Sessions == {"tab1", "tab2"}
Usernames == {"user1", "bob"}
Passwords == {"pw1"}
AccountNames == {"User1", "USER2", "bob"}  \* the usernames of SpecAccounts
AccountPasswords == {"pw1", "pw2"}          \* the passwords of SpecAccounts
ApiKeys == {"", "gsk_key"}                  \* "" is the default of line 12
Prompts == {"I drank and feel panicky", "what's the weather"}
OnePrompt == {"I drank and feel panicky"}   \* the input of Spec and SpecNoFail
Responses == {"reply"}

NoUser == "<none>"

VARIABLES
    users,            \* table users: set of [username, password]
    medical_history,  \* table medical_history: rows in storage order
    chat_messages,    \* table chat_messages: rows in storage (rowid) order;
                      \* reply_to is no column: it records, for the properties,
                      \* the timestamp of the user message a reply answers
    now,              \* the reading datetime.now() returns
    readers,          \* sessions that already read the clock at this reading
    session_state,    \* st.session_state of each session
    seeding,          \* the new_u of a "Create Account" run between its INSERT
                      \* (line 201) and seed_demo_data (line 202)
    GROQ_API_KEY,     \* st.secrets.get("GROQ_API_KEY", "")
    pc,               \* position of each session's script run
    prompt,           \* the chat input of the running turn
    turn_stamp,       \* observation: timestamp of the running turn's user message
    pending,          \* row["timestamp"] of the pressed delete button
    event             \* observation: what the last step did

vars == <<users, medical_history, chat_messages, now, readers, session_state,
          seeding, GROQ_API_KEY, pc, prompt, turn_stamp, pending, event>>

(* what the chat turn and the delete button leave alone *)
authVars == <<users, medical_history, session_state, seeding, GROQ_API_KEY>>

NoEvent == [op |-> "none"]

----------------------------------------------------------------------------
(* hashlib.sha256(p.encode()).hexdigest(): one digest per password *)
sha256_hexdigest(p) == <<"sha256", p>>

(* str.lower(), on the spellings of the demo identities *)
lower(u) ==
    IF u \in {"user1", "User1", "USER1"} THEN "user1"
    ELSE IF u \in {"user2", "User2", "USER2"} THEN "user2"
    ELSE u

Anonymous == [logged_in |-> FALSE, username |-> NoUser]

(* users without its PRIMARY KEY: the INSERT never fails *)
insert_user_NoKey(table, username, hashed) ==
    [IntegrityError |-> FALSE,
     table |-> table \cup {[username |-> username, password |-> hashed]}]

(* INSERT INTO users VALUES (?,?) on username TEXT PRIMARY KEY: whether it *)
(* raises sqlite3.IntegrityError, and the table it leaves                  *)
insert_user(table, username, hashed) ==
    IF \E r \in table : r.username = username
    THEN [IntegrityError |-> TRUE, table |-> table]
    ELSE [IntegrityError |-> FALSE,
          table |-> table \cup {[username |-> username, password |-> hashed]}]

(* the login query without its AND password=? *)
select_user_AnyPassword(table, u, hashed) ==
    {r \in table : r.username = u}

(* SELECT * FROM users WHERE username=? AND password=?: the rows fetchone() *)
(* can return; no row makes it None                                        *)
select_user(table, u, hashed) ==
    {r \in table : r.username = u /\ r.password = hashed}

LoggedIn(s) == session_state[s].logged_in

----------------------------------------------------------------------------
(* A row is named by its place in the table. RowsOf: WHERE username=?      *)
RowsOf(table, username) ==
    {i \in 1..Len(table) : table[i].username = username}

MinStamp(table, S) ==
    CHOOSE t \in {table[i].timestamp : i \in S} :
        \A i \in S : t <= table[i].timestamp

(* ORDER BY timestamp ASC: every order the rows S can be returned in; rows *)
(* with equal timestamps come in any order                                 *)
RECURSIVE OrderByTimestampAsc(_, _)
OrderByTimestampAsc(table, S) ==
    IF S = {} THEN {<<>>}
    ELSE UNION {{<<i>> \o q : q \in OrderByTimestampAsc(table, S \ {i})} :
                    i \in {j \in S : table[j].timestamp = MinStamp(table, S)}}

(* LIMIT n *)
Limit(q, n) == SubSeq(q, 1, IF n < Len(q) THEN n ELSE Len(q))

(* the table without the rows D *)
RECURSIVE Without(_, _)
Without(table, D) ==
    IF table = <<>> THEN <<>>
    ELSE LET n == Len(table)
             front == Without(SubSeq(table, 1, n - 1), D)
         IN  IF n \in D THEN front ELSE Append(front, table[n])

(* save_chat_to_db with a clock that does not advance: every row gets the *)
(* same timestamp                                                         *)
save_chat_to_db_SameStamp(table, username, role, content, clock, reply_to) ==
    Append(table, [username |-> username, role |-> role, content |-> content,
                   timestamp |-> 1, reply_to |-> reply_to])

(* save_chat_to_db: INSERT INTO chat_messages VALUES (?,?,?,datetime.now()) *)
save_chat_to_db(table, username, role, content, clock, reply_to) ==
    Append(table, [username |-> username, role |-> role, content |-> content,
                   timestamp |-> clock, reply_to |-> reply_to])

(* load_chat_history: the lists of dicts the SELECT ... ORDER BY timestamp *)
(* ASC LIMIT ? can produce                                                 *)
DefaultLimit == 50

HistoryDict(r) ==
    [role |-> r.role, content |-> r.content, timestamp |-> r.timestamp]

(* load_chat_history without its WHERE username=? *)
load_chat_history_AllUsers(table, username, limit) ==
    {[k \in 1..Len(Limit(q, limit)) |-> HistoryDict(table[q[k]])] :
        q \in OrderByTimestampAsc(table, 1..Len(table))}

load_chat_history(table, username, limit) ==
    {[k \in 1..Len(Limit(q, limit)) |-> HistoryDict(table[q[k]])] :
        q \in OrderByTimestampAsc(table, RowsOf(table, username))}

(* delete_chat_pair, first statement:                                      *)
(* DELETE ... WHERE username=? AND role='user' AND timestamp=?             *)
DeleteUserRow(table, username, user_timestamp) ==
    Without(table, {i \in RowsOf(table, username) :
                        /\ table[i].role = "user"
                        /\ table[i].timestamp = user_timestamp})

(* delete_chat_pair, second statement: DELETE ... WHERE username=? AND     *)
(* role='assistant' AND timestamp > ? ORDER BY timestamp ASC LIMIT 1,      *)
(* with the meaning SQLite gives it when built with DELETE ... LIMIT       *)
(* the second statement without its username=? *)
AssistantAfter_AnyUser(table, username, user_timestamp) ==
    {i \in 1..Len(table) :
        /\ table[i].role = "assistant"
        /\ table[i].timestamp > user_timestamp}

AssistantAfter(table, username, user_timestamp) ==
    {i \in RowsOf(table, username) :
        /\ table[i].role = "assistant"
        /\ table[i].timestamp > user_timestamp}

DeleteFirstAssistant(table, username, user_timestamp) ==
    LET cand == AssistantAfter(table, username, user_timestamp)
    IN  {Without(table, {Head(q)}) :
            q \in {Limit(o, 1) : o \in OrderByTimestampAsc(table, cand)} \ {<<>>}}
        \cup (IF cand = {} THEN {table} ELSE {})

(* delete_chat_pair: the tables the two statements can leave *)
delete_chat_pair(table, username, user_timestamp) ==
    DeleteFirstAssistant(DeleteUserRow(table, username, user_timestamp),
                         username, user_timestamp)

(* seed_demo_data comparing the username as typed, without .lower() *)
seed_demo_data_CaseSensitive(username) ==
    IF username = "user1"
    THEN <<[user_id |-> username, date |-> "2023-10-12",
            substance |-> "Xanax (Alprazolam)",
            dosage |-> "0.5mg (Prescribed Daily)",
            reaction |-> "Anxiety management"],
           [user_id |-> username, date |-> "2024-05-20",
            substance |-> "Alcohol + Xanax", dosage |-> "3 beers",
            reaction |-> "Severe panic attack"]>>
    ELSE IF username = "user2"
    THEN <<[user_id |-> username, date |-> "2023-08-15",
            substance |-> "Metformin",
            dosage |-> "500mg (Prescribed Daily)",
            reaction |-> "Diabetes management"],
           [user_id |-> username, date |-> "2024-11-02",
            substance |-> "Alcohol + Metformin", dosage |-> "2 glasses wine",
            reaction |-> "Nausea, panic"]>>
    ELSE <<[user_id |-> username, date |-> "2025-01-01",
            substance |-> "General", dosage |-> "N/A",
            reaction |-> "Initial baseline"]>>

(* seed_demo_data: the rows appended to medical_history *)
seed_demo_data(username) ==
    IF lower(username) = "user1"
    THEN <<[user_id |-> username, date |-> "2023-10-12",
            substance |-> "Xanax (Alprazolam)",
            dosage |-> "0.5mg (Prescribed Daily)",
            reaction |-> "Anxiety management"],
           [user_id |-> username, date |-> "2024-05-20",
            substance |-> "Alcohol + Xanax", dosage |-> "3 beers",
            reaction |-> "Severe panic attack"]>>
    ELSE IF lower(username) = "user2"
    THEN <<[user_id |-> username, date |-> "2023-08-15",
            substance |-> "Metformin",
            dosage |-> "500mg (Prescribed Daily)",
            reaction |-> "Diabetes management"],
           [user_id |-> username, date |-> "2024-11-02",
            substance |-> "Alcohol + Metformin", dosage |-> "2 glasses wine",
            reaction |-> "Nausea, panic"]>>
    ELSE <<[user_id |-> username, date |-> "2025-01-01",
            substance |-> "General", dosage |-> "N/A",
            reaction |-> "Initial baseline"]>>

(* SELECT * FROM medical_history WHERE user_id=? *)
hidden_history(username) ==
    SelectSeq(medical_history, LAMBDA r : r.user_id = username)

(* get_ai_response, up to the call: the message lists it can hand over *)
system_msg(history_df) == [role |-> "system", content |-> history_df]

(* get_ai_response relying on the stored history for the new input *)
get_ai_response_NoInput(user_input, history_df, username) ==
    {<<system_msg(history_df)>> \o chat_history :
        chat_history \in load_chat_history(chat_messages, username, DefaultLimit)}

get_ai_response(user_input, history_df, username) ==
    {<<system_msg(history_df)>> \o chat_history
        \o <<[role |-> "user", content |-> user_input]>> :
        chat_history \in load_chat_history(chat_messages, username, DefaultLimit)}

(* the transcript the page renders: SELECT role, content, timestamp ...    *)
(* WHERE username=? ORDER BY timestamp ASC, every order it can come in     *)
chat_log(username) ==
    {[k \in 1..Len(q) |-> HistoryDict(chat_messages[q[k]])] :
        q \in OrderByTimestampAsc(chat_messages, RowsOf(chat_messages, username))}

----------------------------------------------------------------------------
(* the application started with the secret GROQ_API_KEY read as key *)
Deployed(key) ==
    /\ users = {}
    /\ medical_history = <<>>
    /\ chat_messages = <<>>
    /\ now = 1
    /\ readers = {}
    /\ session_state = [s \in Sessions |-> Anonymous]
    /\ seeding = [s \in Sessions |-> NoUser]
    /\ GROQ_API_KEY = key
    /\ pc = [s \in Sessions |-> "idle"]
    /\ prompt = [s \in Sessions |-> ""]
    /\ turn_stamp = [s \in Sessions |-> 0]
    /\ pending = [s \in Sessions |-> 0]
    /\ event = NoEvent

Init == Deployed("gsk_key")

(* the secret may be missing: line 12 then reads "" *)
InitAnyKey == \E key \in ApiKeys : Deployed(key)

(* Time passes. Only the order and equality of readings reach the code, so *)
(* the clock is advanced only past a reading some session has used; rows   *)
(* are stamped with the readings up to MaxClock.                           *)
Tick ==
    /\ now <= MaxClock
    /\ readers # {}
    /\ now' = now + 1
    /\ readers' = {}
    /\ event' = NoEvent
    /\ UNCHANGED <<authVars, chat_messages, pc, prompt, turn_stamp, pending>>

(* "Create Account", lines 196-201 and 204-205: the INSERT and its commit; *)
(* the primary key rejects a second row for the username                   *)
Register(s, new_u, new_p) ==
    /\ ~LoggedIn(s)
    /\ seeding[s] = NoUser
    /\ LET hashed == sha256_hexdigest(new_p)
           done == insert_user(users, new_u, hashed)
       IN  /\ users' = done.table
           /\ seeding' = IF done.IntegrityError THEN seeding
                         ELSE [seeding EXCEPT ![s] = new_u]
           /\ event' = [op |-> "register", session |-> s, username |-> new_u,
                        password |-> new_p, before |-> users,
                        outcome |-> IF done.IntegrityError
                                    THEN "Username already exists"
                                    ELSE "inserted"]
    /\ UNCHANGED <<medical_history, session_state, GROQ_API_KEY, chat_messages,
                   now, readers, pc, prompt, turn_stamp, pending>>

(* "Create Account", lines 202-203: seed_demo_data(new_u) in a transaction *)
(* of its own, then the success message                                    *)
Seed(s) ==
    /\ seeding[s] # NoUser
    /\ medical_history' = medical_history \o seed_demo_data(seeding[s])
    /\ seeding' = [seeding EXCEPT ![s] = NoUser]
    /\ event' = [op |-> "seed", session |-> s, username |-> seeding[s],
                 outcome |-> "Account created successfully."]
    /\ UNCHANGED <<users, session_state, GROQ_API_KEY, chat_messages, now,
                   readers, pc, prompt, turn_stamp, pending>>

(* "Log In" offered to a session that is logged in as well *)
Login_NoGate(s, u, p) ==
    /\ seeding[s] = NoUser
    /\ LET hashed == sha256_hexdigest(p)
           found == select_user(users, u, hashed) # {}
       IN  /\ session_state' =
                  IF found
                  THEN [session_state EXCEPT
                            ![s] = [logged_in |-> TRUE, username |-> u]]
                  ELSE session_state
           /\ event' = [op |-> "login", session |-> s, username |-> u,
                        password |-> p,
                        outcome |-> IF found THEN "rerun"
                                    ELSE "Invalid credentials"]
    /\ UNCHANGED <<users, medical_history, seeding, GROQ_API_KEY, chat_messages,
                   now, readers, pc, prompt, turn_stamp, pending>>

(* "Log In", offered by the branch of line 169 *)
Login(s, u, p) ==
    /\ ~LoggedIn(s)
    /\ seeding[s] = NoUser
    /\ LET hashed == sha256_hexdigest(p)
           found == select_user(users, u, hashed) # {}
       IN  /\ session_state' =
                  IF found
                  THEN [session_state EXCEPT
                            ![s] = [logged_in |-> TRUE, username |-> u]]
                  ELSE session_state
           /\ event' = [op |-> "login", session |-> s, username |-> u,
                        password |-> p,
                        outcome |-> IF found THEN "rerun"
                                    ELSE "Invalid credentials"]
    /\ UNCHANGED <<users, medical_history, seeding, GROQ_API_KEY, chat_messages,
                   now, readers, pc, prompt, turn_stamp, pending>>

(* the "Logout" that deletes the user's conversation as well *)
Logout_ClearsChat(s) ==
    /\ LoggedIn(s)
    /\ pc[s] = "idle"
    /\ s \notin readers
    /\ session_state' = [session_state EXCEPT ![s] = Anonymous]
    /\ chat_messages' = Without(chat_messages,
                                RowsOf(chat_messages, session_state[s].username))
    /\ event' = [op |-> "logout", session |-> s,
                 username |-> session_state[s].username]
    /\ UNCHANGED <<users, medical_history, seeding, GROQ_API_KEY, now, readers,
                   pc, prompt, turn_stamp, pending>>

(* "Logout": st.session_state.clear() *)
Logout(s) ==
    /\ LoggedIn(s)
    /\ pc[s] = "idle"
    /\ s \notin readers
    /\ session_state' = [session_state EXCEPT ![s] = Anonymous]
    /\ event' = [op |-> "logout", session |-> s,
                 username |-> session_state[s].username]
    /\ UNCHANGED <<users, medical_history, seeding, GROQ_API_KEY, chat_messages,
                   now, readers, pc, prompt, turn_stamp, pending>>

(* chat turn, line 254: the user message is saved *)
Submit(s, p) ==
    /\ LoggedIn(s)
    /\ pc[s] = "idle"
    /\ s \notin readers
    /\ now <= MaxClock
    /\ Len(chat_messages) < MaxRows
    /\ chat_messages' = save_chat_to_db(chat_messages, session_state[s].username,
                                        "user", p, now, 0)
    /\ readers' = readers \cup {s}
    /\ pc' = [pc EXCEPT ![s] = "saved"]
    /\ prompt' = [prompt EXCEPT ![s] = p]
    /\ turn_stamp' = [turn_stamp EXCEPT ![s] = now]
    /\ event' = [op |-> "save_chat_to_db", session |-> s]
    /\ UNCHANGED <<authVars, now, pending>>

(* chat turn, line 257: get_ai_response builds the client from            *)
(* GROQ_API_KEY and the messages and calls client.chat.completions.create; *)
(* Groq(api_key=...) refuses None only, "" builds a client like any key    *)
CallLLM(s) ==
    /\ pc[s] = "saved"
    /\ \E messages \in get_ai_response(prompt[s],
                                       hidden_history(session_state[s].username),
                                       session_state[s].username) :
           event' = [op |-> "create", session |-> s, user_input |-> prompt[s],
                     api_key |-> GROQ_API_KEY, messages |-> messages]
    /\ pc' = [pc EXCEPT ![s] = "calling"]
    /\ prompt' = [prompt EXCEPT ![s] = ""]
    /\ UNCHANGED <<authVars, chat_messages, now, readers, turn_stamp, pending>>

(* chat turn, line 262: the completion returned and the reply is saved *)
Reply(s, response) ==
    /\ pc[s] = "calling"
    /\ s \notin readers
    /\ now <= MaxClock
    /\ Len(chat_messages) < MaxRows
    /\ chat_messages' = save_chat_to_db(chat_messages, session_state[s].username,
                                        "assistant", response, now, turn_stamp[s])
    /\ readers' = readers \cup {s}
    /\ pc' = [pc EXCEPT ![s] = "idle"]
    /\ turn_stamp' = [turn_stamp EXCEPT ![s] = 0]
    /\ event' = [op |-> "save_chat_to_db", session |-> s]
    /\ UNCHANGED <<authVars, now, prompt, pending>>

(* the completion call raised: nothing catches it, the script run ends at  *)
(* line 257 and line 262 is never reached                                  *)
Fail(s) ==
    /\ pc[s] = "calling"
    /\ pc' = [pc EXCEPT ![s] = "idle"]
    /\ turn_stamp' = [turn_stamp EXCEPT ![s] = 0]
    /\ event' = NoEvent
    /\ UNCHANGED <<authVars, chat_messages, now, readers, prompt, pending>>

(* a "Delete <timestamp>" button of the transcript read at line 223 *)
DeleteClick(s, i) ==
    /\ LoggedIn(s)
    /\ pc[s] = "idle"
    /\ s \notin readers
    /\ chat_messages[i].username = session_state[s].username
    /\ chat_messages[i].role = "user"
    /\ pending' = [pending EXCEPT ![s] = chat_messages[i].timestamp]
    /\ pc' = [pc EXCEPT ![s] = "deleting"]
    /\ event' = NoEvent
    /\ UNCHANGED <<authVars, chat_messages, now, readers, prompt, turn_stamp>>

(* line 247: delete_chat_pair(st.session_state.username, row["timestamp"]) *)
DeletePair(s) ==
    /\ pc[s] = "deleting"
    /\ \E table \in delete_chat_pair(chat_messages, session_state[s].username,
                                     pending[s]) :
           chat_messages' = table
    /\ event' = [op |-> "delete_chat_pair", session |-> s,
                 username |-> session_state[s].username,
                 user_timestamp |-> pending[s], before |-> chat_messages]
    /\ pending' = [pending EXCEPT ![s] = 0]
    /\ pc' = [pc EXCEPT ![s] = "idle"]
    /\ UNCHANGED <<authVars, now, readers, prompt, turn_stamp>>

Auth(S) ==
    \/ \E s \in S, u \in Usernames, p \in Passwords : Register(s, u, p)
    \/ \E s \in S : Seed(s)
    \/ \E s \in S, u \in Usernames, p \in Passwords : Login(s, u, p)
    \/ \E s \in S : Logout(s)

Turn(S, P) ==
    \/ \E s \in S, p \in P : Submit(s, p)
    \/ \E s \in S : CallLLM(s)
    \/ \E s \in S, r \in Responses : Reply(s, r)

Delete(S) ==
    \/ \E s \in S, i \in 1..Len(chat_messages) : DeleteClick(s, i)
    \/ \E s \in S : DeletePair(s)

Next ==
    \/ Tick
    \/ Auth(Sessions)
    \/ Turn(Sessions, OnePrompt)
    \/ \E s \in Sessions : Fail(s)
    \/ Delete(Sessions)

Spec == Init /\ [][Next]_vars

(* one session: only the first tab is used *)
NextSingle ==
    \/ Tick
    \/ Auth({"tab1"})
    \/ Turn({"tab1"}, Prompts)
    \/ Fail("tab1")
    \/ Delete({"tab1"})

SpecSingle == Init /\ [][NextSingle]_vars

(* one session, of a deployment with or without the secret *)
SpecAnyKey == InitAnyKey /\ [][NextSingle]_vars

(* two sessions, every completion call returns *)
NextNoFail ==
    \/ Tick
    \/ Auth(Sessions)
    \/ Turn(Sessions, OnePrompt)
    \/ Delete(Sessions)

SpecNoFail == Init /\ [][NextNoFail]_vars

(* normal operation: a username is logged in in one session at a time,     *)
(* every completion call returns, nothing is deleted                       *)
LoginAlone(s, u, p) ==
    /\ \A o \in Sessions : session_state[o].username # u
    /\ Login(s, u, p)

NextNormal ==
    \/ Tick
    \/ \E s \in Sessions, u \in Usernames, p \in Passwords : Register(s, u, p)
    \/ \E s \in Sessions : Seed(s)
    \/ \E s \in Sessions, u \in Usernames, p \in Passwords : LoginAlone(s, u, p)
    \/ \E s \in Sessions : Logout(s)
    \/ Turn(Sessions, Prompts)

SpecNormal == Init /\ [][NextNormal]_vars

(* the accounts: two sessions register and log in, with the demo names in  *)
(* other spellings and with two passwords; the first tab chats             *)
NextAccounts ==
    \/ Tick
    \/ \E s \in Sessions, u \in AccountNames, p \in AccountPasswords :
           Register(s, u, p)
    \/ \E s \in Sessions : Seed(s)
    \/ \E s \in Sessions, u \in AccountNames, p \in AccountPasswords :
           Login(s, u, p)
    \/ Turn({"tab1"}, OnePrompt)
    \/ Fail("tab1")
    \/ Delete({"tab1"})

SpecAccounts == Init /\ [][NextAccounts]_vars

----------------------------------------------------------------------------
(* Vocabulary of the properties, spelled out on the rows themselves.       *)

(* the rows of table at the places not in D, in table order *)
Kept(table, D) ==
    LET idx == {i \in 1..Len(table) : i \notin D}
        at(k) == CHOOSE i \in idx : Cardinality({j \in idx : j < i}) = k - 1
    IN  [k \in 1..Cardinality(idx) |-> table[at(k)]]

IsRow(table, i, username, role) ==
    table[i].username = username /\ table[i].role = role

(* user-role rows of username with timestamp exactly t *)
UserRowsAt(table, username, t) ==
    {i \in 1..Len(table) :
        IsRow(table, i, username, "user") /\ table[i].timestamp = t}

(* assistant rows of username later than t, and the earliest of them *)
RepliesAfter(table, username, t) ==
    {i \in 1..Len(table) :
        IsRow(table, i, username, "assistant") /\ table[i].timestamp > t}

FirstRepliesAfter(table, username, t) ==
    {i \in RepliesAfter(table, username, t) :
        \A j \in RepliesAfter(table, username, t) :
            table[i].timestamp <= table[j].timestamp}

Deleted == event.op = "delete_chat_pair"

(* what a history entry built from row i looks like, how many rows of      *)
(* username look like d, and how often d occurs in a returned list         *)
Entry(table, i) ==
    [role |-> table[i].role, content |-> table[i].content,
     timestamp |-> table[i].timestamp]

StoredRows(table, username) ==
    {i \in 1..Len(table) : table[i].username = username}

Stored(table, username, d) ==
    Cardinality({i \in StoredRows(table, username) : Entry(table, i) = d})

Returned(result, d) == Cardinality({k \in 1..Len(result) : result[k] = d})

(* result holds rows of username only, none more often than stored *)
OnlyRowsOf(table, username, result) ==
    \A k \in 1..Len(result) :
        /\ Returned(result, result[k]) <= Stored(table, username, result[k])
        /\ Stored(table, username, result[k]) > 0

Ascending(result) ==
    \A k \in 1..Len(result) - 1 : result[k].timestamp <= result[k + 1].timestamp

Smaller(a, b) == IF a < b THEN a ELSE b

(* a turn of username is between its two inserts *)
InTurn(username) ==
    \E s \in Sessions :
        session_state[s].username = username /\ pc[s] \in {"saved", "calling"}

----------------------------------------------------------------------------
(* C1: after delete_pair(u, t) on the timestamp t of an existing user      *)
(* message of u, the table is the table before the call without the user   *)
(* rows of u at t and without the first assistant row of u later than t    *)
(* (when there is one); every other row, of u or of anyone else, is still  *)
(* there, unchanged and in place.                                          *)
C1_DeletePairRemovesThePairOnly ==
    (Deleted /\ UserRowsAt(event.before, event.username, event.user_timestamp) # {}) =>
        LET b == event.before
            U == UserRowsAt(b, event.username, event.user_timestamp)
            F == FirstRepliesAfter(b, event.username, event.user_timestamp)
        IN  IF F = {} THEN chat_messages = Kept(b, U)
            ELSE \E i \in F : chat_messages = Kept(b, U \cup {i})

(* a delete that removed a user message and its reply and left others *)
C1_Witness ==
    /\ Deleted
    /\ UserRowsAt(event.before, event.username, event.user_timestamp) # {}
    /\ RepliesAfter(event.before, event.username, event.user_timestamp) # {}
    /\ Len(chat_messages) = Len(event.before) - 2
    /\ \E i \in 1..Len(chat_messages) : chat_messages[i].username # event.username

(* C2: delete_pair(u, t) is a no-op when u has no user-role message with   *)
(* timestamp exactly t: the table is the same before and after the call.   *)
C2_DeleteOfMissingTimestampIsNoOp ==
    (Deleted /\ UserRowsAt(event.before, event.username, event.user_timestamp) = {}) =>
        chat_messages = event.before

(* C3: in a single session, the assistant message a delete removes is the  *)
(* reply to the deleted user message: no other user message of that user   *)
(* lies between the deleted user message and the deleted assistant         *)
(* message.                                                                *)
C3_DeleteRemovesOnlyTheReply ==
    Deleted =>
        LET b == event.before
            u == event.username
            t == event.user_timestamp
            U == UserRowsAt(b, u, t)
        IN  \A i \in RepliesAfter(b, u, 0) :
                chat_messages = Kept(b, U \cup {i}) =>
                    ~\E j \in 1..Len(b) :
                        /\ IsRow(b, j, u, "user")
                        /\ t < b[j].timestamp
                        /\ b[j].timestamp < b[i].timestamp

----------------------------------------------------------------------------
(* C4: when the completion call of a user turn fails, the turn still ends  *)
(* with an assistant-role message appended after the saved user message:   *)
(* every step that ends a turn which reached the external call keeps the   *)
(* rows already stored and appends one assistant row of the session's      *)
(* user.                                                                   *)
C4_FailedCallStillAppendsAssistant ==
    [][\A s \in Sessions :
          (pc[s] = "calling" /\ pc'[s] = "idle") =>
              /\ Len(chat_messages') = Len(chat_messages) + 1
              /\ SubSeq(chat_messages', 1, Len(chat_messages)) = chat_messages
              /\ IsRow(chat_messages', Len(chat_messages'),
                       session_state[s].username, "assistant")]_vars

(* C5: under normal operation messages come in pairs: every transcript     *)
(* alternates user, assistant, starting with user, and once no turn of the *)
(* user is in progress it holds exactly 2n entries, n the number of turns  *)
(* (one user entry per turn).                                              *)
C5_NormalTurnsComeInPairs ==
    \A u \in Usernames : \A log \in chat_log(u) :
        /\ \A k \in 1..Len(log) :
               log[k].role = IF k % 2 = 1 THEN "user" ELSE "assistant"
        /\ ~InTurn(u) =>
               Len(log) = 2 * Cardinality({k \in 1..Len(log) : log[k].role = "user"})

(* the first turn of a user is complete: [user, assistant] *)
C5_Witness ==
    \E u \in Usernames : \E log \in chat_log(u) :
        /\ ~InTurn(u)
        /\ Len(log) = 2
        /\ log[1].role = "user" /\ log[2].role = "assistant"

(* C6: the list handed to the completion call is one system message, then *)
(* the stored history of the user in timestamp order (the first           *)
(* DefaultLimit rows of it), then one user message holding the new input; *)
(* no other message has the system role.                                  *)
C6_PromptIsSystemHistoryInput ==
    event.op = "create" =>
        LET m == event.messages
            n == Len(m)
            u == session_state[event.session].username
            history == SubSeq(m, 2, n - 1)
        IN  /\ n >= 2
            /\ m[1] = [role |-> "system",
                       content |-> SelectSeq(medical_history,
                                             LAMBDA r : r.user_id = u)]
            /\ \A k \in 2..n : m[k].role # "system"
            /\ m[n] = [role |-> "user", content |-> event.user_input]
            /\ OnlyRowsOf(chat_messages, u, history)
            /\ Ascending(history)
            /\ Len(history) =
                   Smaller(Cardinality(StoredRows(chat_messages, u)), DefaultLimit)

(* a call whose history holds an earlier exchange and the new message *)
C6_Witness ==
    /\ event.op = "create"
    /\ Len(event.messages) >= 5
    /\ event.messages[Len(event.messages)].content = event.user_input

(* C7: with more than limit rows stored, history_for(username, limit)      *)
(* returns the limit rows with the largest timestamps, ascending: limit    *)
(* rows of the user, and every stored row newer than the first returned    *)
(* one is returned.                                                        *)
C7_HistoryKeepsMostRecent ==
    \A u \in Usernames : \A limit \in 1..MaxLimit :
        Cardinality(StoredRows(chat_messages, u)) > limit =>
            \A result \in load_chat_history(chat_messages, u, limit) :
                /\ Len(result) = limit
                /\ OnlyRowsOf(chat_messages, u, result)
                /\ Ascending(result)
                /\ \A i \in StoredRows(chat_messages, u) :
                       chat_messages[i].timestamp > result[1].timestamp =>
                           Returned(result, Entry(chat_messages, i))
                               = Stored(chat_messages, u, Entry(chat_messages, i))

(* C8: history_for returns rows of that user only, in non-decreasing       *)
(* timestamp order, at most limit of them (all when limit allows), always  *)
(* from the same end: every stored row older than the last returned one is *)
(* returned.                                                               *)
C8_HistoryOrderedAndCapped ==
    \A u \in Usernames : \A limit \in 0..MaxLimit :
        \A result \in load_chat_history(chat_messages, u, limit) :
            /\ OnlyRowsOf(chat_messages, u, result)
            /\ Ascending(result)
            /\ Len(result) =
                   Smaller(Cardinality(StoredRows(chat_messages, u)), limit)
            /\ \A i \in StoredRows(chat_messages, u) :
                   (Len(result) > 0
                    /\ chat_messages[i].timestamp < result[Len(result)].timestamp) =>
                       Returned(result, Entry(chat_messages, i))
                           = Stored(chat_messages, u, Entry(chat_messages, i))

(* a user with more rows than a limit, beside rows of another user *)
C8_Witness ==
    \E u \in Usernames :
        /\ Cardinality(StoredRows(chat_messages, u)) >= 2
        /\ \E i \in 1..Len(chat_messages) : chat_messages[i].username # u
        /\ \E i, j \in StoredRows(chat_messages, u) :
               chat_messages[i].timestamp < chat_messages[j].timestamp

(* C9: with two sessions of one username appending concurrently, deleting  *)
(* a user message removes only the assistant reply produced for it: the    *)
(* assistant row removed answers the user message at the deleted           *)
(* timestamp.                                                              *)
C9_ConcurrentDeleteRemovesOwnReply ==
    (Deleted /\ Cardinality(UserRowsAt(event.before, event.username,
                                       event.user_timestamp)) = 1) =>
        LET b == event.before
            U == UserRowsAt(b, event.username, event.user_timestamp)
        IN  \A i \in RepliesAfter(b, event.username, 0) :
                chat_messages = Kept(b, U \cup {i}) =>
                    b[i].reply_to = event.user_timestamp

(* C10: no two chat messages of the same username have the same timestamp. *)
C10_TimestampsUniquePerUser ==
    \A i, j \in 1..Len(chat_messages) :
        (i # j /\ chat_messages[i].username = chat_messages[j].username) =>
            chat_messages[i].timestamp # chat_messages[j].timestamp

----------------------------------------------------------------------------
(* the stored rows of a username in the users table *)
Registered(table, username) == {r \in table : r.username = username}

(* C11: registering a username that is already registered fails with the   *)
(* duplicate-username error and leaves the users table, and so the stored  *)
(* hash of that username, as it was, whatever password is supplied; the    *)
(* users table never holds two rows for one username.                      *)
C11_DuplicateRegistrationRejected ==
    /\ \A r1, r2 \in users : r1.username = r2.username => r1 = r2
    /\ (event.op = "register" /\ Registered(event.before, event.username) # {}) =>
           /\ event.outcome = "Username already exists"
           /\ users = event.before

(* a second registration of a username with another password was rejected *)
C11_Witness ==
    /\ event.op = "register"
    /\ event.outcome = "Username already exists"
    /\ \E r \in users :
           /\ r.username = event.username
           /\ r.password # sha256_hexdigest(event.password)

(* C12: a login with (u, p) succeeds if and only if u is registered and    *)
(* the digest of p is the digest stored for u; it then opens the session   *)
(* of u. Every other login, of a missing username or with a wrong          *)
(* password, ends in the same "Invalid credentials" and leaves the session *)
(* Anonymous.                                                              *)
C12_LoginIffDigestMatches ==
    event.op = "login" =>
        LET matches == \E r \in users :
                           /\ r.username = event.username
                           /\ r.password = sha256_hexdigest(event.password)
        IN  IF matches
            THEN /\ event.outcome = "rerun"
                 /\ session_state[event.session] =
                        [logged_in |-> TRUE, username |-> event.username]
            ELSE /\ event.outcome = "Invalid credentials"
                 /\ session_state[event.session] = Anonymous

(* a registered username was refused with the wrong password *)
C12_Witness ==
    /\ event.op = "login"
    /\ event.outcome = "Invalid credentials"
    /\ Registered(users, event.username) # {}
    /\ session_state[event.session] = Anonymous

----------------------------------------------------------------------------
(* the rows of the other usernames, in table order *)
RowsOfOthers(table, username) ==
    SelectSeq(table, LAMBDA r : r.username # username)

Authenticated(state) ==
    /\ state.logged_in
    /\ Registered(users, state.username) # {}

(* C13: a session is Anonymous or Authenticated. A registration or a login *)
(* succeeds only in an Anonymous session; a session becomes Authenticated  *)
(* only by a successful login, as the username whose credentials were      *)
(* accepted, and leaves that state only by logout, to Anonymous. A step of *)
(* a user turn or of a delete-exchange is taken only by an Authenticated   *)
(* session and changes only rows of that session's username.               *)
C13_SessionStateMachine ==
    [][/\ \A s \in Sessions :
              /\ session_state'[s] = Anonymous \/ Authenticated(session_state'[s])
              /\ session_state'[s] # session_state[s] =>
                     /\ event'.op \in {"login", "logout"}
                     /\ event'.session = s
       /\ (event'.op = "register" /\ event'.outcome = "inserted") =>
              session_state[event'.session] = Anonymous
       /\ (event'.op = "login" /\ event'.outcome = "rerun") =>
              /\ session_state[event'.session] = Anonymous
              /\ session_state'[event'.session] =
                     [logged_in |-> TRUE, username |-> event'.username]
       /\ event'.op = "logout" =>
              /\ Authenticated(session_state[event'.session])
              /\ session_state'[event'.session] = Anonymous
       /\ event'.op \in {"save_chat_to_db", "create", "delete_chat_pair"} =>
              LET own == session_state[event'.session]
              IN  /\ Authenticated(own)
                  /\ session_state'[event'.session] = own
                  /\ RowsOfOthers(chat_messages', own.username)
                         = RowsOfOthers(chat_messages, own.username)
       /\ chat_messages' # chat_messages =>
              event'.op \in {"save_chat_to_db", "delete_chat_pair"}]_vars

(* a session deleted an exchange of its user while the other session is    *)
(* logged in as another user who has messages                              *)
C13_Witness ==
    /\ event.op = "delete_chat_pair"
    /\ chat_messages # event.before
    /\ \E o \in Sessions \ {event.session} :
           /\ LoggedIn(o)
           /\ session_state[o].username # event.username
           /\ RowsOf(chat_messages, session_state[o].username) # {}

(* C14: a logout clears the session state (logged-in flag and username)    *)
(* and changes none of the three tables, so the transcript of every user,  *)
(* the one who logged out included, reads the same after it as before.     *)
C14_LogoutKeepsPersistedData ==
    [][event'.op = "logout" =>
           /\ session_state'[event'.session] = Anonymous
           /\ users' = users
           /\ medical_history' = medical_history
           /\ chat_messages' = chat_messages
           /\ \A u \in Usernames : chat_log(u)' = chat_log(u)]_vars

(* a user with stored messages logged out *)
C14_Witness ==
    /\ event.op = "logout"
    /\ session_state[event.session] = Anonymous
    /\ RowsOf(chat_messages, event.username) # {}

----------------------------------------------------------------------------
(* C15: with the API key absent, no user turn reaches the call of the      *)
(* completion API: the absence is reported before any call is attempted.   *)
C15_NoCallWithoutKey ==
    GROQ_API_KEY = "" => event.op # "create"

(* inputs that contain none of the guardrail keywords: the example of the  *)
(* guardrail scenario                                                      *)
OffTopic == {"what's the weather"}

(* C16: an input that contains none of the guardrail keywords never        *)
(* reaches the external collaborator: no completion call is made for it.   *)
C16_OffTopicInputIsNotSent ==
    event.op = "create" => event.user_input \notin OffTopic

(* C17: the message list sent to the completion API holds the newly        *)
(* submitted input exactly once, as the trailing user message: the row the *)
(* turn has just saved is not in it a second time.                         *)
C17_NewInputSentOnce ==
    event.op = "create" =>
        LET m == event.messages
            n == Len(m)
        IN  /\ m[n] = [role |-> "user", content |-> event.user_input]
            /\ \A k \in 2..n - 1 :
                   ~ /\ m[k].role = "user"
                     /\ m[k].content = event.user_input
                     /\ m[k].timestamp = turn_stamp[event.session]

----------------------------------------------------------------------------
(* the substances of the seed set of a username, the demo identities       *)
(* matched in any spelling of their letters' case                          *)
SeedSubstances(username) ==
    IF username \in {"user1", "User1", "USER1"}
    THEN <<"Xanax (Alprazolam)", "Alcohol + Xanax">>
    ELSE IF username \in {"user2", "User2", "USER2"}
    THEN <<"Metformin", "Alcohol + Metformin">>
    ELSE <<"General">>

(* a registration of username is between its INSERT and its seeding *)
BeingSeeded(username) == \E s \in Sessions : seeding[s] = username

(* C18: medical records are seeded once per username, by its successful   *)
(* registration: whatever registrations (failed ones included), logins,    *)
(* turns and deletions have run, the records of a registered username are  *)
(* exactly its seed set (two records for user1 and for user2 in any        *)
(* spelling, the one baseline record otherwise), each owned by that        *)
(* username; a username that is not registered, or whose registration has  *)
(* not yet seeded, has no records.                                         *)
C18_RecordsSeededOncePerUser ==
    \A u \in AccountNames :
        LET records == hidden_history(u)
        IN  IF Registered(users, u) = {} \/ BeingSeeded(u)
            THEN records = <<>>
            ELSE /\ [k \in 1..Len(records) |-> records[k].substance]
                       = SeedSubstances(u)
                 /\ \A k \in 1..Len(records) : records[k].user_id = u

(* a demo identity in another spelling holds its two records after a       *)
(* second registration of it was rejected and its user took a turn         *)
C18_Witness ==
    /\ Len(hidden_history("User1")) = 2
    /\ event.op = "register"
    /\ event.username = "User1"
    /\ event.outcome = "Username already exists"
    /\ RowsOf(chat_messages, "User1") # {}

====
